---- MODULE Spec2Model ----
(***************************************************************************)
(* Model of openwith_cleaner.py: the Open-With sanity checker and cleaner  *)
(* for Freedesktop .desktop files and ~/.config/mimeapps.list.             *)
(*                                                                         *)
(* Text is modelled as a sequence of atoms.  An atom is either a           *)
(* separator character (space, quote, slash, semicolon) or an indivisible  *)
(* run of ordinary characters ("sh", "ed", "ed.desktop").  Two adjacent    *)
(* ordinary atoms form a longer word that equals no single atom.           *)
(***************************************************************************)
EXTENDS Integers, Sequences, FiniteSets, TLC

VARIABLES
    env,        \* what the executable lookup resolves: [onpath, files]
    lb,         \* looks_broken applied to one (exec_line, tryexec) input
    cm,         \* clean_mimeapps applied repeatedly to one association file
    args,       \* the parsed command line of one run of main()
    fs,         \* descriptor files in the search directories: path -> content
    disabled,   \* files in ~/.local/share/applications/.disabled: name -> content
    dirs,       \* which of the user application dir and its .disabled exist
    mimeapps,   \* ~/.config/mimeapps.list
    report,     \* whether the JSON report file exists at its own path
    pc,         \* position of main()
    found,      \* what find_desktop_files() returned in this run
    entries,    \* load_entries()
    all_desktop_ids,
    work,       \* the items the current loop of main() still has to visit
    log,        \* what main() did to which entry, in order
    out,        \* what main() and its helpers printed, in order
    refreshCalls

vars == <<env, lb, cm, args, fs, disabled, dirs, mimeapps, report, pc, found,
          entries, all_desktop_ids, work, log, out, refreshCalls>>

mainVars == <<args, fs, disabled, dirs, mimeapps, report, pc, found, entries,
              all_desktop_ids, work, log, out, refreshCalls>>

\* ---------------------------------------------------------------- text

SP == " "
DQ == "\""
SQ == "'"
SL == "/"
SEMI == ";"

\* What sits at a path that holds no file.
NoFile == [fmt |-> "absent"]

RECURSIVE LStrip(_)
LStrip(s) == IF s # <<>> /\ Head(s) = SP THEN LStrip(Tail(s)) ELSE s

RECURSIVE RStrip(_)
RStrip(s) ==
    IF s # <<>> /\ s[Len(s)] = SP THEN RStrip(SubSeq(s, 1, Len(s) - 1)) ELSE s

\* str.strip()
Strip(s) == RStrip(LStrip(s))

\* Index of the first c in s at or after i, 0 if there is none.
RECURSIVE IndexFrom(_, _, _)
IndexFrom(s, i, c) ==
    IF i > Len(s) THEN 0
    ELSE IF s[i] = c THEN i
    ELSE IndexFrom(s, i + 1, c)

\* Index of the last c in s, 0 if there is none.
RECURSIVE LastIndex(_, _)
LastIndex(s, c) ==
    IF s = <<>> THEN 0
    ELSE IF s[Len(s)] = c THEN Len(s)
    ELSE LastIndex(SubSeq(s, 1, Len(s) - 1), c)

\* Where the regular expression (?:[^\s"']+|"[^"]*"|'[^']*')+ stops when it
\* is tried at position i of s: i itself when it does not match there.
RECURSIVE TokEnd(_, _)
TokEnd(s, i) ==
    IF i > Len(s) THEN i
    ELSE IF s[i] = SP THEN i
    ELSE IF s[i] \in {DQ, SQ}
         THEN LET j == IndexFrom(s, i + 1, s[i])
              IN  IF j = 0 THEN i ELSE TokEnd(s, j + 1)
    ELSE TokEnd(s, i + 1)

\* parts[0] of re.findall, or <<>> when there are no parts.
RECURSIVE FirstPart(_, _)
FirstPart(s, i) ==
    IF i > Len(s) THEN <<>>
    ELSE LET e == TokEnd(s, i)
         IN  IF e > i THEN SubSeq(s, i, e - 1) ELSE FirstPart(s, i + 1)

extract_first_command(exec_line) ==
    IF exec_line = <<>> THEN <<>>
    ELSE LET first == FirstPart(Strip(exec_line), 1)
         IN  IF first = <<>> THEN <<>>
             ELSE IF \/ (first[1] = DQ /\ first[Len(first)] = DQ)
                     \/ (first[1] = SQ /\ first[Len(first)] = SQ)
                  THEN SubSeq(first, 2, Len(first) - 1)
                  ELSE first

\* pathlib: Path(cmd).name, the last component (trailing slashes dropped).
RECURSIVE DropTrailingSlashes(_)
DropTrailingSlashes(s) ==
    IF s # <<>> /\ s[Len(s)] = SL
    THEN DropTrailingSlashes(SubSeq(s, 1, Len(s) - 1))
    ELSE s

PathName(cmd) ==
    LET p == DropTrailingSlashes(cmd)
    IN  SubSeq(p, LastIndex(p, SL) + 1, Len(p))

IsAbsolute(cmd) == cmd # <<>> /\ cmd[1] = SL

WRAPPER_CMDS ==
    { <<"env">>, <<"bash">>, <<"sh">>, <<"fish">>, <<"zsh">>,
      <<SL, "usr", SL, "bin", SL, "env">>, <<"flatpak">>, <<"snap">>,
      <<"python">>, <<"python3">>, <<"perl">>, <<"ruby">>, <<"java">>,
      <<"podman">>, <<"docker">> }

\* e is the environment: e.files are the absolute paths that exist,
\* e.onpath the commands shutil.which finds.
which_exists(cmd, e) ==
    IF cmd = <<>> THEN FALSE
    ELSE IF IsAbsolute(cmd) THEN cmd \in e.files
    ELSE cmd \in e.onpath

NoReason == <<>>

\* looks_broken with the wrapper's own check inverted (a lost "not").
looks_broken_wrapper_inverted(exec_line, tryexec, e) ==
    LET cmd == extract_first_command(exec_line)
    IN  IF tryexec # <<>> /\ ~which_exists(tryexec, e)
        THEN [broken |-> TRUE, reason |-> <<"TryExec not found", tryexec>>]
        ELSE IF cmd = <<>>
        THEN [broken |-> TRUE, reason |-> <<"Empty Exec", <<>> >>]
        ELSE IF PathName(cmd) \in WRAPPER_CMDS \/ cmd \in WRAPPER_CMDS
        THEN IF which_exists(cmd, e)
             THEN [broken |-> TRUE,
                   reason |-> <<"Wrapper not found in PATH", cmd>>]
             ELSE [broken |-> FALSE, reason |-> NoReason]
        ELSE IF ~which_exists(cmd, e)
        THEN [broken |-> TRUE, reason |-> <<"Executable not found", cmd>>]
        ELSE [broken |-> FALSE, reason |-> NoReason]

looks_broken(exec_line, tryexec, e) ==
    LET cmd == extract_first_command(exec_line)
    IN  IF tryexec # <<>> /\ ~which_exists(tryexec, e)
        THEN [broken |-> TRUE, reason |-> <<"TryExec not found", tryexec>>]
        ELSE IF cmd = <<>>
        THEN [broken |-> TRUE, reason |-> <<"Empty Exec", <<>> >>]
        ELSE IF PathName(cmd) \in WRAPPER_CMDS \/ cmd \in WRAPPER_CMDS
        THEN IF ~which_exists(cmd, e)
             THEN [broken |-> TRUE,
                   reason |-> <<"Wrapper not found in PATH", cmd>>]
             ELSE [broken |-> FALSE, reason |-> NoReason]
        ELSE IF ~which_exists(cmd, e)
        THEN [broken |-> TRUE, reason |-> <<"Executable not found", cmd>>]
        ELSE [broken |-> FALSE, reason |-> NoReason]

\* ------------------------------------------------------ clean_mimeapps

\* val.split(';') with the empty pieces dropped.
RECURSIVE SplitItems(_, _)
SplitItems(val, cur) ==
    IF val = <<>> THEN (IF cur = <<>> THEN <<>> ELSE <<cur>>)
    ELSE IF Head(val) = SEMI
         THEN (IF cur = <<>> THEN <<>> ELSE <<cur>>) \o SplitItems(Tail(val), <<>>)
         ELSE SplitItems(Tail(val), Append(cur, Head(val)))

\* ';'.join(new) + (';' if new else '')
RECURSIVE JoinItems(_)
JoinItems(new) ==
    IF new = <<>> THEN <<>> ELSE Head(new) \o <<SEMI>> \o JoinItems(Tail(new))

Range(seq) == { seq[i] : i \in 1..Len(seq) }

\* The inner loop over the items of one value: st = [new, seen, dup, missing].
RECURSIVE ScanItems_missing_kept(_, _, _)
ScanItems_missing_kept(items, existing_desktops, st) ==
    IF items = <<>> THEN st
    ELSE LET it == Head(items)
             st1 == IF it \notin Range(existing_desktops)
                    THEN [st EXCEPT !.missing = @ + 1]
                    ELSE st
         IN  IF it \in st1.seen
             THEN ScanItems_missing_kept(Tail(items), existing_desktops,
                                         [st1 EXCEPT !.dup = @ + 1])
             ELSE ScanItems_missing_kept(Tail(items), existing_desktops,
                      [st1 EXCEPT !.seen = @ \cup {it}, !.new = Append(@, it)])

RECURSIVE ScanItems(_, _, _)
ScanItems(items, existing_desktops, st) ==
    IF items = <<>> THEN st
    ELSE LET it == Head(items)
         IN  IF it \notin Range(existing_desktops)
             THEN ScanItems(Tail(items), existing_desktops,
                            [st EXCEPT !.missing = @ + 1])
             ELSE IF it \in st.seen
             THEN ScanItems(Tail(items), existing_desktops,
                            [st EXCEPT !.dup = @ + 1])
             ELSE ScanItems(Tail(items), existing_desktops,
                      [st EXCEPT !.seen = @ \cup {it}, !.new = Append(@, it)])

\* One value of one key: [new_val, dup, missing].
CleanValue(val, existing_desktops) ==
    LET st == ScanItems(SplitItems(val, <<>>), existing_desktops,
                        [new |-> <<>>, seen |-> {}, dup |-> 0, missing |-> 0])
    IN  [new_val |-> JoinItems(st.new), dup |-> st.dup, missing |-> st.missing]

CleanedSections == <<"Added Associations", "Default Applications">>

\* The association file is NoFile or [fmt, data]: data maps <<section, key>>
\* to the key's value; fmt tells whether the bytes are as found or as
\* configparser wrote them.
CleanedSlots(data) == { sl \in DOMAIN data : sl[1] \in Range(CleanedSections) }

RECURSIVE SumOver(_, _)
SumOver(S, f) ==
    IF S = {} THEN 0
    ELSE LET x == CHOOSE y \in S : TRUE IN f[x] + SumOver(S \ {x}, f)

\* [file, removed_dup, removed_missing, wrote]
clean_mimeapps(file, existing_desktops) ==
    IF file = NoFile
    THEN [file |-> file, removed_dup |-> 0, removed_missing |-> 0, wrote |-> FALSE]
    ELSE LET cs == CleanedSlots(file.data)
             r == [sl \in cs |-> CleanValue(file.data[sl], existing_desktops)]
             changed == \E sl \in cs : r[sl].new_val # file.data[sl]
             data == [sl \in DOMAIN file.data |->
                         IF sl \in cs THEN r[sl].new_val ELSE file.data[sl]]
         IN  [file |-> IF changed THEN [fmt |-> "written", data |-> data] ELSE file,
              removed_dup |-> SumOver(cs, [sl \in cs |-> r[sl].dup]),
              removed_missing |-> SumOver(cs, [sl \in cs |-> r[sl].missing]),
              wrote |-> changed]

\* ------------------------------------------------- descriptor files

UserApps == "~/.local/share/applications"
UserFlatpak == "~/.local/share/flatpak/exports/share/applications"
UsrShare == "/usr/share/applications"
VarFlatpak == "/var/lib/flatpak/exports/share/applications"
VarSnapd == "/var/lib/snapd/desktop/applications"

USER_DIRS == <<UserApps, UserFlatpak>>
SYSTEM_DIRS == <<UsrShare, VarFlatpak, VarSnapd>>

\* str(path).startswith(str(Path.home())): "~" stands for the home directory.
UnderHome(d) == d \in {UserApps, UserFlatpak}

\* The position of each directory when full paths are compared as strings
\* (the home directory, /home/... or /root, sorts before /usr and /var).
DirRank(d) ==
    CASE d = UserApps -> 1
      [] d = UserFlatpak -> 2
      [] d = UsrShare -> 3
      [] d = VarFlatpak -> 4
      [] d = VarSnapd -> 5

FileNames == <<"ed.desktop", "vw.desktop">>

NameRank(n) == CHOOSE i \in 1..Len(FileNames) : FileNames[i] = n

AllPaths == [dir : Range(USER_DIRS \o SYSTEM_DIRS), name : Range(FileNames)]

\* p < q for the strings of two paths.
PathLess(p, q) ==
    \/ DirRank(p.dir) < DirRank(q.dir)
    \/ DirRank(p.dir) = DirRank(q.dir) /\ NameRank(p.name) < NameRank(q.name)

\* str.lower() of one atom.
LowerAtom(a) ==
    CASE a = "Editor" -> "editor"
      [] a = "Application" -> "application"
      [] a = "Link" -> "link"
      [] OTHER -> a

Lower(s) == [i \in 1..Len(s) |-> LowerAtom(s[i])]

\* kw in low, for the text of an exec line and the directory of a path.
KeywordAtoms(kw) == IF kw = "snap" THEN {"snap", "snapd"} ELSE {kw}

TextHas(s, kw) == \E i \in 1..Len(s) : LowerAtom(s[i]) \in KeywordAtoms(kw)

DirHas(d, kw) ==
    \/ kw = "flatpak" /\ d \in {UserFlatpak, VarFlatpak}
    \/ kw = "snap" /\ d = VarSnapd

detect_provider(path, exec_line, e) ==
    IF DirHas(path.dir, "flatpak") \/ TextHas(exec_line, "flatpak") THEN "flatpak"
    ELSE IF DirHas(path.dir, "snap") \/ TextHas(exec_line, "snap") THEN "snap"
    ELSE IF which_exists(extract_first_command(exec_line), e) THEN "native"
    ELSE "other"

None == [none |-> TRUE]

ParseErrorEntry(path) ==
    [path |-> path,
     scope |-> IF UnderHome(path.dir) THEN "user" ELSE "system",
     name |-> <<>>, exec_line |-> <<>>, tryexec |-> <<>>, mimetypes |-> <<>>,
     hidden |-> FALSE, nodisplay |-> FALSE, entry_type |-> "Application",
     first_cmd |-> <<>>, provider |-> "other", broken |-> TRUE,
     reason |-> <<"Parse error", <<>> >>]

\* c is the content of the file at path: what configparser makes of it.
\* An unreadable file is skipped by ConfigParser.read and so has no
\* [Desktop Entry]; a malformed one raises inside the try block.
read_desktop(path, c, e) ==
    IF ~c.readable THEN None
    ELSE IF ~c.wellformed THEN ParseErrorEntry(path)
    ELSE IF LowerAtom(c.Type) # "application" THEN None
    ELSE LET exec_line == Strip(c.Exec)
             tryexec == Strip(c.TryExec)
             mimetypes == SplitItems(Strip(c.MimeType), <<>>)
             lbr == looks_broken(exec_line, tryexec, e)
         IN  IF mimetypes = <<>> THEN None
             ELSE [path |-> path,
                   scope |-> IF UnderHome(path.dir) THEN "user" ELSE "system",
                   name |-> Strip(c.Name), exec_line |-> exec_line,
                   tryexec |-> tryexec, mimetypes |-> mimetypes,
                   hidden |-> c.Hidden, nodisplay |-> c.NoDisplay,
                   entry_type |-> c.Type,
                   first_cmd |-> extract_first_command(exec_line),
                   provider |-> detect_provider(path, exec_line, e),
                   broken |-> lbr.broken, reason |-> lbr.reason]

\* The orders in which the files of directory d can be enumerated (glob).
DirListings(files, d) ==
    LET here == { p \in DOMAIN files : p.dir = d /\ files[p] # NoFile }
    IN  { sq \in [1..Cardinality(here) -> here] : Range(sq) = here }

RECURSIVE ConcatListings(_, _)
ConcatListings(files, ds) ==
    IF ds = <<>> THEN { <<>> }
    ELSE { a \o b : a \in DirListings(files, Head(ds)),
                    b \in ConcatListings(files, Tail(ds)) }

\* Every list find_desktop_files() can return.
find_desktop_files(files) == ConcatListings(files, USER_DIRS \o SYSTEM_DIRS)

RECURSIVE load_entries(_, _, _)
load_entries(paths, files, e) ==
    IF paths = <<>> THEN <<>>
    ELSE LET en == read_desktop(Head(paths), files[Head(paths)], e)
         IN  (IF en # None /\ en.mimetypes # <<>> THEN <<en>> ELSE <<>>)
             \o load_entries(Tail(paths), files, e)

\* ------------------------------------------------------------ main()

\* broken = [e for e in entries if e.broken and not e.hidden]
BrokenOf(es) == SelectSeq(es, LAMBDA e : e.broken /\ ~e.hidden)

\* The grouping keys: by "name", or by "name+cmd".
KeyOf(e, mode) ==
    IF mode = "name" THEN <<Lower(Strip(e.name))>>
    ELSE <<Lower(Strip(e.name)), Lower(Strip(e.first_cmd))>>

\* The keys of the defaultdict in insertion order.
RECURSIVE KeysInOrder(_, _, _)
KeysInOrder(es, mode, seen) ==
    IF es = <<>> THEN <<>>
    ELSE LET k == KeyOf(Head(es), mode)
         IN  IF k \in seen THEN KeysInOrder(Tail(es), mode, seen)
             ELSE <<k>> \o KeysInOrder(Tail(es), mode, seen \cup {k})

GroupOf(es, mode, k) == SelectSeq(es, LAMBDA e : KeyOf(e, mode) = k)

\* [g for g in by.values() if len(g) > 1 and g[0].name]
RECURSIVE DupGroupsFrom(_, _, _)
DupGroupsFrom(es, mode, keys) ==
    IF keys = <<>> THEN <<>>
    ELSE LET g == GroupOf(es, mode, Head(keys))
         IN  (IF Len(g) > 1 /\ g[1].name # <<>> THEN <<g>> ELSE <<>>)
             \o DupGroupsFrom(es, mode, Tail(keys))

DupGroups(es, mode) == DupGroupsFrom(es, mode, KeysInOrder(es, mode, {}))

provider_rank(provider, prefer) ==
    LET native == [native |-> 0, flatpak |-> 1, snap |-> 2, other |-> 3]
        flatpak == [flatpak |-> 0, native |-> 1, snap |-> 2, other |-> 3]
        snap == [snap |-> 0, native |-> 1, flatpak |-> 2, other |-> 3]
        m == CASE prefer = "flatpak" -> flatpak
               [] prefer = "snap" -> snap
               [] OTHER -> native
    IN  IF provider \in DOMAIN m THEN m[provider] ELSE 3

ScopeRank(e) == IF e.scope = "system" THEN 0 ELSE 1

\* (provider_rank, scope, path) of x below that of y, as tuples compare.
KeyLess(x, y, prefer) ==
    LET rx == provider_rank(x.provider, prefer)
        ry == provider_rank(y.provider, prefer)
    IN  \/ rx < ry
        \/ rx = ry /\ ScopeRank(x) < ScopeRank(y)
        \/ rx = ry /\ ScopeRank(x) = ScopeRank(y) /\ PathLess(x.path, y.path)

\* min(group, key=...): the first element no later one is below.
RECURSIVE MinFrom(_, _, _)
MinFrom(best, rest, prefer) ==
    IF rest = <<>> THEN best
    ELSE MinFrom(IF KeyLess(Head(rest), best, prefer) THEN Head(rest) ELSE best,
                 Tail(rest), prefer)

\* The name pass keeping the group's first entry, whatever its rank.
KeepByName_first(group, prefer) == Head(group)

KeepByName(group, prefer) == MinFrom(Head(group), Tail(group), prefer)

\* The first system-scope entry in group order, else the group's first entry.
KeepByNameCmd(group) ==
    LET sys == SelectSeq(group, LAMBDA e : e.scope = "system")
    IN  IF sys # <<>> THEN Head(sys) ELSE Head(group)

Item(pass, g, e, keep) ==
    [pass |-> pass, key |-> g, path |-> e.path, scope |-> e.scope, keep |-> keep]

\* The visits of one "for e in group" loop, in order.
GroupItems(pass, g, group, keep) ==
    [i \in 1..Len(group) |-> Item(pass, g, group[i], group[i] = keep)]

RECURSIVE PlanFrom(_, _, _, _)
PlanFrom(pass, groups, g, prefer) ==
    IF g > Len(groups) THEN <<>>
    ELSE GroupItems(pass, g, groups[g],
                    IF pass = "name" THEN KeepByName(groups[g], prefer)
                    ELSE KeepByNameCmd(groups[g]))
         \o PlanFrom(pass, groups, g + 1, prefer)

BrokenPlan(es) ==
    LET b == BrokenOf(es)
    IN  [i \in 1..Len(b) |-> Item("broken", 0, b[i], FALSE)]

NamePlan(es, prefer) == PlanFrom("name", DupGroups(es, "name"), 1, prefer)

NameCmdPlan(es) == PlanFrom("name+cmd", DupGroups(es, "name+cmd"), 1, "native")

Mutating(a) == a.fix_broken \/ a.hide_duplicates \/ a.fix_mimeapps

NoJson == [dir |-> "", name |-> ""]
ReportPath == [dir |-> "~", name |-> "report.json"]

\* What a JSON report is when it is read as a descriptor file.
JsonText ==
    [readable |-> TRUE, wellformed |-> FALSE, Type |-> "Application",
     Name |-> <<>>, Exec |-> <<>>, TryExec |-> <<>>, Hidden |-> FALSE,
     NoDisplay |-> FALSE, MimeType |-> <<>>]

UserPath(name) == [dir |-> UserApps, name |-> name]

\* What the file system can do to the hiding of item it: carry it out, fail
\* the mkdir of a directory that is not there yet (which raises out of
\* ensure_user_dir and disable_user_file), or fail the move or the write
\* (which the helpers catch).
Outcomes(it) ==
    {"ok"}
    \cup (IF env.faults > 0
             /\ (IF it.scope = "user" THEN "DISABLED" ELSE "U1") \notin dirs
          THEN {"mkdir fails"} ELSE {})
    \cup (IF env.faults > 0 /\ fs[it.path] # NoFile
             /\ (it.scope = "system" => fs[it.path].readable)
          THEN {"io fails"} ELSE {})

\* disable_user_file(user_path) under outcome o.
disable_user_file(it, o) ==
    IF o = "mkdir fails"
    THEN [raised |-> TRUE, fs |-> fs, disabled |-> disabled, dirs |-> dirs,
          res |-> "failed", err |-> <<>>]
    ELSE IF fs[it.path] = NoFile
    THEN [raised |-> FALSE, fs |-> fs, disabled |-> disabled,
          dirs |-> dirs \cup {"U1", "DISABLED"}, res |-> "absent", err |-> <<>>]
    ELSE IF o = "io fails"
    THEN [raised |-> FALSE, fs |-> fs, disabled |-> disabled,
          dirs |-> dirs \cup {"U1", "DISABLED"}, res |-> "failed",
          err |-> << <<"Failed to move", it.path>> >>]
    ELSE [raised |-> FALSE, fs |-> [fs EXCEPT ![it.path] = NoFile],
          disabled |-> [disabled EXCEPT ![it.path.name] = fs[it.path]],
          dirs |-> dirs \cup {"U1", "DISABLED"}, res |-> "ok", err |-> <<>>]

\* set_nodisplay_override(system_path) under outcome o.
set_nodisplay_override(it, o) ==
    IF o = "mkdir fails"
    THEN [raised |-> TRUE, fs |-> fs, disabled |-> disabled, dirs |-> dirs,
          res |-> "failed", err |-> <<>>]
    ELSE IF fs[it.path] = NoFile \/ ~fs[it.path].readable \/ o = "io fails"
    THEN [raised |-> FALSE, fs |-> fs, disabled |-> disabled,
          dirs |-> dirs \cup {"U1"}, res |-> "failed",
          err |-> << <<"Failed to override", it.path>> >>]
    ELSE [raised |-> FALSE,
          fs |-> [fs EXCEPT ![UserPath(it.path.name)] =
                                [fs[it.path] EXCEPT !.NoDisplay = TRUE]],
          disabled |-> disabled, dirs |-> dirs \cup {"U1"}, res |-> "ok",
          err |-> <<>>]

\* One visit of a fix-broken or hide-duplicates loop.
Visit(it) ==
    IF it.keep
    THEN /\ log' = Append(log, [pass |-> it.pass, key |-> it.key,
                                path |-> it.path, act |-> "keep", res |-> "ok"])
         /\ out' = Append(out, <<"keeping", it.path>>)
         /\ work' = Tail(work)
         /\ UNCHANGED <<env, fs, disabled, dirs, pc>>
    ELSE \E o \in Outcomes(it) :
           LET r == IF it.scope = "user" THEN disable_user_file(it, o)
                    ELSE set_nodisplay_override(it, o)
               act == IF it.scope = "user" THEN "move" ELSE "shadow"
           IN  /\ env' = IF o = "ok" THEN env ELSE [env EXCEPT !.faults = @ - 1]
               /\ fs' = r.fs
               /\ disabled' = r.disabled
               /\ dirs' = r.dirs
               /\ IF r.raised
                  THEN /\ pc' = "aborted"
                       /\ UNCHANGED <<log, out, work>>
                  ELSE /\ log' = Append(log, [pass |-> it.pass, key |-> it.key,
                                              path |-> it.path, act |-> act,
                                              res |-> r.res])
                       /\ out' = out \o r.err \o << <<act, it.path>> >>
                       /\ work' = Tail(work)
                       /\ pc' = pc

\* entries = load_entries(); all_desktop_ids = [Path(e.path).name for e in entries]
Load ==
    /\ pc = "load"
    /\ \E paths \in find_desktop_files(fs) :
         LET es == load_entries(paths, fs, env)
         IN  /\ found' = paths
             /\ entries' = es
             /\ all_desktop_ids' = [i \in 1..Len(es) |-> <<es[i].path.name>>]
    /\ pc' = "report"
    /\ UNCHANGED <<env, lb, cm, args, fs, disabled, dirs, mimeapps, report,
                   work, log, out, refreshCalls>>

\* The text report: printed with --scan or when no action was chosen.
Report ==
    /\ pc = "report"
    /\ out' = IF args.scan \/ ~Mutating(args)
              THEN Append(out, <<"report", Len(entries), Len(BrokenOf(entries)),
                                 Len(DupGroups(entries, "name")),
                                 Len(DupGroups(entries, "name+cmd"))>>)
              ELSE out
    /\ pc' = "json"
    /\ UNCHANGED <<env, lb, cm, args, fs, disabled, dirs, mimeapps, report,
                   found, entries, all_desktop_ids, work, log, refreshCalls>>

\* Path(args.json).write_text(...): the report goes wherever --json points.
WriteJson ==
    /\ pc = "json"
    /\ report' = (report \/ args.json = ReportPath)
    /\ fs' = IF args.json \in DOMAIN fs /\ "U1" \in dirs
             THEN [fs EXCEPT ![args.json] = JsonText] ELSE fs
    /\ IF args.json \in DOMAIN fs /\ "U1" \notin dirs
       THEN pc' = "aborted" /\ UNCHANGED <<work, out>>
       ELSE /\ pc' = "fix_broken"
            /\ out' = IF args.json # NoJson
                      THEN Append(out, <<"JSON report written", args.json>>)
                      ELSE out
            /\ work' = IF args.fix_broken THEN BrokenPlan(entries) ELSE <<>>
    /\ UNCHANGED <<env, lb, cm, args, disabled, dirs, mimeapps, found,
                   entries, all_desktop_ids, log, refreshCalls>>

FixBrokenStep ==
    /\ pc = "fix_broken"
    /\ work # <<>>
    /\ Visit(Head(work))
    /\ UNCHANGED <<lb, cm, args, mimeapps, report, found, entries,
                   all_desktop_ids, refreshCalls>>

FixBrokenEnd ==
    /\ pc = "fix_broken"
    /\ work = <<>>
    /\ pc' = "hide_name"
    /\ work' = IF args.hide_duplicates /\ args.strategy \in {"name", "auto"}
               THEN NamePlan(entries, args.prefer) ELSE <<>>
    /\ UNCHANGED <<env, lb, cm, args, fs, disabled, dirs, mimeapps, report,
                   found, entries, all_desktop_ids, log, out, refreshCalls>>

HideNameStep ==
    /\ pc = "hide_name"
    /\ work # <<>>
    /\ Visit(Head(work))
    /\ UNCHANGED <<lb, cm, args, mimeapps, report, found, entries,
                   all_desktop_ids, refreshCalls>>

HideNameEnd ==
    /\ pc = "hide_name"
    /\ work = <<>>
    /\ pc' = "hide_name_cmd"
    /\ work' = IF args.hide_duplicates /\ args.strategy \in {"name+cmd", "auto"}
               THEN NameCmdPlan(entries) ELSE <<>>
    /\ UNCHANGED <<env, lb, cm, args, fs, disabled, dirs, mimeapps, report,
                   found, entries, all_desktop_ids, log, out, refreshCalls>>

HideNameCmdStep ==
    /\ pc = "hide_name_cmd"
    /\ work # <<>>
    /\ Visit(Head(work))
    /\ UNCHANGED <<lb, cm, args, mimeapps, report, found, entries,
                   all_desktop_ids, refreshCalls>>

HideNameCmdEnd ==
    /\ pc = "hide_name_cmd"
    /\ work = <<>>
    /\ pc' = "fix_mimeapps"
    /\ UNCHANGED <<env, lb, cm, args, fs, disabled, dirs, mimeapps, report,
                   found, entries, all_desktop_ids, work, log, out, refreshCalls>>

\* The association file cleaned whether or not --fix-mimeapps was given.
FixMimeapps_unguarded ==
    /\ pc = "fix_mimeapps"
    /\ LET r == clean_mimeapps(mimeapps, all_desktop_ids)
       IN  /\ mimeapps' = r.file
           /\ out' = Append(out, <<"Cleaned mimeapps.list",
                                   r.removed_dup, r.removed_missing>>)
           /\ pc' = "refresh"
    /\ UNCHANGED <<env, lb, cm, args, fs, disabled, dirs, report, found,
                   entries, all_desktop_ids, work, log, refreshCalls>>

\* if args.fix_mimeapps: clean_mimeapps(mimeapps, all_desktop_ids)
FixMimeapps ==
    /\ pc = "fix_mimeapps"
    /\ IF ~args.fix_mimeapps
       THEN pc' = "refresh" /\ UNCHANGED <<mimeapps, out>>
       ELSE LET r == clean_mimeapps(mimeapps, all_desktop_ids)
            IN  /\ mimeapps' = r.file
                /\ out' = Append(out, <<"Cleaned mimeapps.list",
                                        r.removed_dup, r.removed_missing>>)
                /\ pc' = "refresh"
    /\ UNCHANGED <<env, lb, cm, args, fs, disabled, dirs, report, found,
                   entries, all_desktop_ids, work, log, refreshCalls>>

\* update-desktop-database on ensure_user_dir(), inside try/except, then the
\* closing message.
Refresh ==
    /\ pc = "refresh"
    /\ IF ~Mutating(args)
       THEN UNCHANGED <<env, dirs, refreshCalls, out>>
       ELSE \E o \in {"ok"} \cup (IF env.faults > 0 /\ "U1" \notin dirs
                                  THEN {"mkdir fails"} ELSE {}) :
              /\ env' = IF o = "ok" THEN env ELSE [env EXCEPT !.faults = @ - 1]
              /\ dirs' = IF o = "ok" THEN dirs \cup {"U1"} ELSE dirs
              /\ refreshCalls' = IF o = "ok" THEN refreshCalls + 1
                                 ELSE refreshCalls
              /\ out' = Append(out, <<"Done">>)
    /\ pc' = "done"
    /\ UNCHANGED <<lb, cm, args, fs, disabled, mimeapps, report, found,
                   entries, all_desktop_ids, work, log>>

\* ------------------------------------------------------ the inputs

MaxFiles == 2
MaxFaults == 1
MaxExecLen == 3
MaxValLen == 3
MaxPasses == 2

\* All texts of at most n atoms of alphabet A.
Texts(A, n) == UNION { [1..k -> A] : k \in 0..n }

Desktop(name, exec_line, mime) ==
    [readable |-> TRUE, wellformed |-> TRUE, Type |-> "Application",
     Name |-> name, Exec |-> exec_line, TryExec |-> <<>>, Hidden |-> FALSE,
     NoDisplay |-> FALSE, MimeType |-> mime]

TextPlain == <<"text/plain", SEMI>>

\* The descriptor files the runs start from: a healthy launcher; one of the
\* same name in other letters that is started through snap, which is not
\* installed; one of that name whose command is gone; a launcher that
\* declares no MimeType; and a file configparser cannot parse.
Contents ==
    { Desktop(<<"Editor">>, <<"ed", SP, "%f">>, TextPlain),
      Desktop(<<"editor">>, <<"snap", SP, "run", SP, "ed">>, TextPlain),
      Desktop(<<"editor", SP>>, <<SP, "gone">>, TextPlain),
      Desktop(<<"Editor">>, <<"ed">>, <<>>),
      [Desktop(<<>>, <<>>, <<>>) EXCEPT !.wellformed = FALSE] }

\* The places where the runs start with a file or without one.
InitialPaths ==
    { [dir |-> UserApps, name |-> "ed.desktop"],
      [dir |-> UserApps, name |-> "vw.desktop"],
      [dir |-> UsrShare, name |-> "vw.desktop"],
      [dir |-> VarFlatpak, name |-> "ed.desktop"] }

EmptyFs == [p \in AllPaths |-> NoFile]

\* At most MaxFiles of the initial paths hold a file.
InitialFs ==
    { [p \in AllPaths |-> IF p \in DOMAIN c THEN c[p] ELSE NoFile] :
        c \in UNION { [P -> Contents] :
                        P \in { Q \in SUBSET InitialPaths :
                                  Cardinality(Q) <= MaxFiles } } }

MimeFile(data) == [fmt |-> "asfound", data |-> data]

Ed == "ed.desktop"
Vw == "vw.desktop"

InitialMimeapps ==
    MimeFile(<<"Added Associations", "text/plain">>
                 :> <<Ed, SEMI, Vw, SEMI, Ed, SEMI>>
             @@ <<"Default Applications", "text/plain">>
                 :> <<Vw, SEMI, Ed>>
             @@ <<"Removed Associations", "text/plain">>
                 :> <<Vw, SEMI, Vw>>)

\* argparse: --strategy and --prefer default to auto and native; they are
\* read only by --hide-duplicates, so runs without it carry the defaults.
\* --scan and --json only add output; they are explored in full on the runs
\* that change nothing, and the runs with a mutating flag are taken without.
ArgSets ==
    { a \in [scan : BOOLEAN, fix_broken : BOOLEAN, hide_duplicates : BOOLEAN,
             strategy : {"name", "name+cmd", "auto"},
             prefer : {"native", "flatpak", "snap"},
             fix_mimeapps : BOOLEAN,
             json : {NoJson, ReportPath, UserPath(Ed)}] :
        /\ ~a.hide_duplicates => a.strategy = "auto" /\ a.prefer = "native"
        /\ a.strategy = "name+cmd" => a.prefer = "native"
        /\ Mutating(a) => ~a.scan /\ a.json = NoJson }

MainEnv == [onpath |-> {<<"ed">>, <<"sh">>}, files |-> {}, faults |-> MaxFaults]

LbIdle == [exec_line |-> <<>>, tryexec |-> <<>>, done |-> FALSE,
           res |-> [broken |-> FALSE, reason |-> NoReason]]

CmIdle == [file |-> NoFile, existing |-> <<>>, pass |-> 0, prev |-> NoFile,
           res |-> [removed_dup |-> 0, removed_missing |-> 0, wrote |-> FALSE]]

Init ==
    /\ env = MainEnv
    /\ lb = LbIdle
    /\ cm = CmIdle
    /\ args \in ArgSets
    /\ fs \in InitialFs
    /\ disabled = [n \in Range(FileNames) |-> NoFile]
    /\ dirs \in { d \in {{}, {"U1"}} :
                    (\E p \in AllPaths : p.dir = UserApps /\ fs[p] # NoFile)
                        => "U1" \in d }
    /\ mimeapps = InitialMimeapps
    /\ report = FALSE
    /\ pc = "load"
    /\ found = <<>>
    /\ entries = <<>>
    /\ all_desktop_ids = <<>>
    /\ work = <<>>
    /\ log = <<>>
    /\ out = <<>>
    /\ refreshCalls = 0

Next ==
    \/ Load
    \/ Report
    \/ WriteJson
    \/ FixBrokenStep
    \/ FixBrokenEnd
    \/ HideNameStep
    \/ HideNameEnd
    \/ HideNameCmdStep
    \/ HideNameCmdEnd
    \/ FixMimeapps
    \/ Refresh

Spec == Init /\ [][Next]_vars

\* ------------------------------------- looks_broken on its own inputs

ExecAtoms == {"sh", "ed", SP, DQ, SL}

Idle ==
    /\ args = [scan |-> FALSE, fix_broken |-> FALSE, hide_duplicates |-> FALSE,
               strategy |-> "auto", prefer |-> "native", fix_mimeapps |-> FALSE,
               json |-> NoJson]
    /\ fs = EmptyFs
    /\ disabled = [n \in Range(FileNames) |-> NoFile]
    /\ dirs = {}
    /\ mimeapps = NoFile
    /\ report = FALSE
    /\ pc = "idle"
    /\ found = <<>>
    /\ entries = <<>>
    /\ all_desktop_ids = <<>>
    /\ work = <<>>
    /\ log = <<>>
    /\ out = <<>>
    /\ refreshCalls = 0

\* Every exec line of at most MaxExecLen atoms, a TryExec that is absent, a
\* bare command or an absolute path, and every way the lookup can answer.
InitBroken ==
    /\ env \in [onpath : SUBSET {<<"sh">>, <<"ed">>},
                files : SUBSET {<<SL, "sh">>}, faults : {0}]
    /\ lb \in [exec_line : Texts(ExecAtoms, MaxExecLen),
               tryexec : {<<>>, <<"ed">>, <<SL, "sh">>},
               done : {FALSE},
               res : {[broken |-> FALSE, reason |-> NoReason]}]
    /\ cm = CmIdle
    /\ Idle

Classify ==
    /\ ~lb.done
    /\ lb' = [lb EXCEPT !.done = TRUE,
                        !.res = looks_broken(lb.exec_line, lb.tryexec, env)]
    /\ UNCHANGED <<env, cm, mainVars>>

NextBroken == Classify

SpecBroken == InitBroken /\ [][NextBroken]_vars

\* ---------------------------------- clean_mimeapps run again and again

Ids == {"a.desktop", "b.desktop"}

\* The association file is absent, or holds a key of "Added Associations"
\* with any value of at most MaxValLen atoms, with or without a key of
\* "Default Applications", and a key of a section the cleaner leaves alone.
InitialCmFiles ==
    {NoFile} \cup
    { MimeFile(<<"Added Associations", "text/plain">> :> v
               @@ <<"Removed Associations", "text/plain">>
                    :> <<"b.desktop", SEMI, "b.desktop">>) :
        v \in Texts(Ids \cup {SEMI}, MaxValLen) } \cup
    { MimeFile(<<"Added Associations", "text/plain">> :> v
               @@ <<"Default Applications", "image/png">>
                    :> <<"a.desktop", SEMI, "b.desktop", SEMI, "a.desktop">>) :
        v \in Texts(Ids \cup {SEMI}, MaxValLen) }

InitMime ==
    /\ env = [onpath |-> {}, files |-> {}, faults |-> 0]
    /\ lb = LbIdle
    /\ cm \in [file : InitialCmFiles,
               existing : { <<>>, << <<"a.desktop">> >>, << <<"b.desktop">> >>,
                            << <<"b.desktop">>, <<"a.desktop">> >> },
               pass : {0}, prev : {NoFile},
               res : {[removed_dup |-> 0, removed_missing |-> 0, wrote |-> FALSE]}]
    /\ Idle

\* One run of --fix-mimeapps over the same discovered filenames.
CleanPass ==
    /\ cm.pass < MaxPasses
    /\ LET r == clean_mimeapps(cm.file, cm.existing)
       IN  cm' = [cm EXCEPT !.file = r.file, !.prev = cm.file, !.pass = @ + 1,
                            !.res = [removed_dup |-> r.removed_dup,
                                     removed_missing |-> r.removed_missing,
                                     wrote |-> r.wrote]]
    /\ UNCHANGED <<env, lb, mainVars>>

NextMime == CleanPass

SpecMime == InitMime /\ [][NextMime]_vars

\* ------------------------------------------------------- properties

Present(files) == { p \in AllPaths : files[p] # NoFile }

\* What a run without a mutating flag must leave alone, apart from the
\* descriptor paths in Except.
FrameKept(Except) ==
    /\ \A p \in AllPaths \ Except : fs'[p] = fs[p]
    /\ disabled' = disabled
    /\ dirs' = dirs
    /\ mimeapps' = mimeapps
    /\ refreshCalls' = refreshCalls

RECURSIVE FirstOccurrences(_, _)
FirstOccurrences(sq, seen) ==
    IF sq = <<>> THEN <<>>
    ELSE IF Head(sq) \in seen THEN FirstOccurrences(Tail(sq), seen)
    ELSE <<Head(sq)>> \o FirstOccurrences(Tail(sq), seen \cup {Head(sq)})

FoundNames == { <<found[i].name>> : i \in 1..Len(found) }

ItemsBefore(sl) == SplitItems(InitialMimeapps.data[sl], <<>>)

FoundItems(sl) == SelectSeq(ItemsBefore(sl), LAMBDA it : it \in FoundNames)

MissingIn(sl) == Len(ItemsBefore(sl)) - Len(FoundItems(sl))

DuplicatesIn(sl) == Len(FoundItems(sl)) - Len(FirstOccurrences(FoundItems(sl), {}))

\* C2: when --fix-mimeapps has run, every value of "Added Associations" and
\* "Default Applications" is the list of first occurrences, in order, of its
\* identifiers that are filenames found by the locator, and the two reported
\* counts are the numbers of occurrences dropped as duplicate and as missing.
C2_KeepsEveryFoundFilename ==
    (pc = "done" /\ args.fix_mimeapps) =>
        /\ \A sl \in CleanedSlots(InitialMimeapps.data) :
              mimeapps.data[sl] = JoinItems(FirstOccurrences(FoundItems(sl), {}))
        /\ \E i \in 1..Len(out) :
              /\ out[i][1] = "Cleaned mimeapps.list"
              /\ out[i][2] = SumOver(CleanedSlots(InitialMimeapps.data),
                                     [sl \in CleanedSlots(InitialMimeapps.data) |-> DuplicatesIn(sl)])
              /\ out[i][3] = SumOver(CleanedSlots(InitialMimeapps.data),
                                     [sl \in CleanedSlots(InitialMimeapps.data) |-> MissingIn(sl)])

NoRepeats(sq) == \A i, j \in 1..Len(sq) : sq[i] = sq[j] => i = j

\* C3: at the end of every run with --fix-mimeapps, every identifier left in
\* a value of the two cleaned sections is the filename of a descriptor file
\* that is in the search directories at that moment, and none occurs twice
\* in one value.
C3_ReferencesExistAtEnd ==
    (pc = "done" /\ args.fix_mimeapps) =>
        \A sl \in CleanedSlots(mimeapps.data) :
            LET items == SplitItems(mimeapps.data[sl], <<>>)
            IN  /\ NoRepeats(items)
                /\ \A i \in 1..Len(items) :
                      \E p \in Present(fs) : items[i] = <<p.name>>

NameGroups == DupGroups(entries, "name")

\* The one member of the group that is below every other member.
LeastOf(group, prefer) ==
    CHOOSE m \in Range(group) :
        \A x \in Range(group) \ {m} : KeyLess(m, x, prefer)

NamePassOver ==
    /\ pc \in {"hide_name_cmd", "fix_mimeapps", "refresh", "done"}
    /\ args.hide_duplicates
    /\ args.strategy \in {"name", "auto"}

\* C4: in the name pass, for every --prefer value, the entry kept in a group
\* is its one member that is least by (provider rank, system before user,
\* path), whatever the order of the group; the preferred provider has rank 0
\* and "other" the last rank; every visit of another member is a move (user
\* scope) or a shadow override (system scope); and when the pass is over each
\* member of each group has had exactly one visit.
C4_NameKeepIsLeast ==
    LET groups == NameGroups
        named == { i \in 1..Len(log) : log[i].pass = "name" }
    IN  /\ \A pv \in {"native", "flatpak", "snap"} :
              /\ provider_rank(pv, pv) = 0
              /\ \A q \in {"native", "flatpak", "snap"} :
                    provider_rank(q, pv) < provider_rank("other", pv)
                    /\ (q # pv => provider_rank(q, pv) > 0)
        /\ \A i \in named :
              LET group == groups[log[i].key]
                  least == LeastOf(group, args.prefer)
              IN  /\ \E m \in Range(group) :
                        \A x \in Range(group) \ {m} : KeyLess(m, x, args.prefer)
                  /\ (log[i].act = "keep") = (log[i].path = least.path)
                  /\ log[i].act # "keep" =>
                        log[i].act = IF UnderHome(log[i].path.dir)
                                     THEN "move" ELSE "shadow"
        /\ NamePassOver =>
              \A g \in 1..Len(groups) :
                  \A e \in Range(groups[g]) :
                      Cardinality({ i \in named : /\ log[i].key = g
                                                  /\ log[i].path = e.path }) = 1

C4_Witness ==
    /\ pc = "done"
    /\ args.prefer = "flatpak"
    /\ \E i, j \in 1..Len(log) :
          /\ i < j
          /\ log[i].pass = "name" /\ log[j].pass = "name"
          /\ log[i].key = log[j].key
          /\ log[i].act = "move" /\ log[i].res = "ok"
          /\ log[j].act = "keep"

\* C5: a file-system step that fails for one item of fix-broken or
\* hide-duplicates never ends the batch: the run does not stop with items
\* still to visit.
C5_FailureNeverAbortsBatch == ~(pc = "aborted" /\ work # <<>>)

\* C6: every descriptor file that is unreadable or malformed has an entry in
\* the run's entry set, broken, with a reason beginning "Parse error" and
\* empty name and command.
C6_ParseFailureGivesBrokenEntry ==
    pc = "report" =>
        \A p \in Present(fs) :
            (~fs[p].readable \/ ~fs[p].wellformed) =>
                \E i \in 1..Len(entries) :
                    /\ entries[i].path = p
                    /\ entries[i].broken
                    /\ entries[i].reason[1] = "Parse error"
                    /\ entries[i].name = <<>>
                    /\ entries[i].first_cmd = <<>>

WrapperResolves ==
    LET cmd == extract_first_command(lb.exec_line)
    IN  /\ (PathName(cmd) \in WRAPPER_CMDS \/ cmd \in WRAPPER_CMDS)
        /\ which_exists(cmd, env)

\* C7 as the spec states it: an entry whose resolved command is a wrapper
\* that itself resolves is never marked broken, whatever its other fields.
C7_ResolvingWrapperNeverBroken ==
    (lb.done /\ WrapperResolves) => ~lb.res.broken

\* C7 amended: an entry whose resolved command is a wrapper that itself
\* resolves, and whose TryExec is absent or resolves, is never marked broken,
\* whatever the wrapped target is.
C7_ResolvingWrapperGoodTryExec ==
    (lb.done /\ WrapperResolves
        /\ (lb.tryexec = <<>> \/ which_exists(lb.tryexec, env)))
    => ~lb.res.broken

C7_Witness ==
    /\ lb.done
    /\ lb.exec_line = <<"sh", SP, "ed">>
    /\ <<"ed">> \notin env.onpath
    /\ lb.tryexec = <<SL, "sh">>
    /\ WrapperResolves
    /\ ~lb.res.broken

\* C8: a second run of fix-mimeapps over the same discovered filenames
\* removes nothing, does not rewrite the file and leaves its content as the
\* first run left it.
C8_SecondPassChangesNothing ==
    cm.pass >= 2 =>
        /\ cm.res.removed_dup = 0
        /\ cm.res.removed_missing = 0
        /\ ~cm.res.wrote
        /\ cm.file = cm.prev

C8_Witness ==
    /\ cm.pass = 2
    /\ cm.file.fmt = "written"
    /\ cm.file.data[<<"Added Associations", "text/plain">>] = <<"a.desktop", SEMI>>
    /\ Len(cm.existing) = 2

HiddenByDedup(p) ==
    \E i \in 1..Len(log) :
        /\ log[i].pass \in {"name", "name+cmd"}
        /\ log[i].path = p
        /\ log[i].act \in {"move", "shadow"}
        /\ log[i].res = "ok"

\* C9: when --hide-duplicates has completed with no file operation failing,
\* under any strategy, every group of entries of one name still has a member
\* that no pass of this run moved away or shadowed.
C9_EveryNameGroupKeepsOne ==
    (/\ pc = "done"
     /\ args.hide_duplicates
     /\ env.faults = MaxFaults
     /\ \A i \in 1..Len(log) : log[i].res # "failed")
    => \A g \in 1..Len(NameGroups) :
          \E e \in Range(NameGroups[g]) : ~HiddenByDedup(e.path)

CurrentPlan ==
    IF pc = "hide_name" THEN NamePlan(entries, args.prefer)
    ELSE NameCmdPlan(entries)

KeptFilesStay ==
    \A k \in 1..Len(CurrentPlan) :
        CurrentPlan[k].keep => (fs'[CurrentPlan[k].path] = fs[CurrentPlan[k].path])

\* C10: a step of a hide-duplicates pass never creates, overwrites, moves or
\* removes the file of an entry that the pass keeps.
C10_KeptFileUntouched ==
    [][(pc \in {"hide_name", "hide_name_cmd"}) => KeptFilesStay]_vars

====
